---- MODULE Spec2Model ----
(***************************************************************************)
(* The wallet store (walletStore.js) and the wallet button                 *)
(* (WalletMultiButton.svelte) as a state machine.                          *)
(*                                                                         *)
(* One action is one turn of the JavaScript event loop: the synchronous    *)
(* part of a store method up to its first await, an adapter settling a     *)
(* call (with the listeners it runs synchronously), an adapter event, or   *)
(* the resumption of an async function after its await (a microtask).      *)
(* While microtasks are queued nothing else runs.                          *)
(*                                                                         *)
(* The wallet adapters are the environment: an adapter call stays pending  *)
(* until the adapter settles it, resolving or rejecting.                   *)
(***************************************************************************)
EXTENDS Integers, Sequences, FiniteSets, TLC

\* Number of wallet adapters handed to initialize().
NumAdapters == 2

Null == "null"
Undefined == "undefined"

\* The adapter objects handed to initialize(), in list order.
AdapterIds == <<"adapter1", "adapter2", "adapter3", "adapter4">>
AdapterNames == <<"Phantom", "Solflare", "Backpack", "Glow">>
AdapterKeys == <<"pk1", "pk2", "pk3", "pk4">>

Adapters == {AdapterIds[i] : i \in 1..NumAdapters}

IndexOf(a) == CHOOSE i \in 1..Len(AdapterIds) : AdapterIds[i] = a

\* adapter.name
NameOf(a) == AdapterNames[IndexOf(a)]

\* A name persisted by an earlier session whose wallet is not supplied now.
ForeignName == "Torus"

WalletReadyState == {"Installed", "NotDetected", "Loadable", "Unsupported"}

\* The ready states the supplied adapters start in. An Unsupported adapter is
\* left out: the store and the button treat it as they treat a NotDetected one
\* that is never detected.
SuppliedReadyStates == {"Installed", "NotDetected", "Loadable"}

SignMethods == {"signTransaction", "signAllTransactions", "signMessage"}

\* The signing methods an adapter object has ("signTransaction" in adapter):
\* a MessageSignerWalletAdapter has all three, a SignerWalletAdapter the two
\* transaction ones, a plain Adapter none.
AdapterMethods(a) ==
    CASE IndexOf(a) % 3 = 1 -> SignMethods
      [] IndexOf(a) % 3 = 2 -> {"signTransaction", "signAllTransactions"}
      [] OTHER -> {}

VARIABLES
    store,         \* the value held by the writable store
    localStorage,  \* the item under localStorageKey: <<>> when absent, else its characters
    adapters,      \* per adapter: connected, readyState (the adapter objects' own state)
    listeners,     \* per adapter and event: how many store listeners are attached
    pending,       \* adapter calls awaited by a store function, not yet settled
    microtasks,    \* async functions ready to resume after their await
    initialized,   \* initialize() has run
    out,           \* what the last turn did: thrown error, onError calls, adapter calls
    focus          \* history: the connect()/handleConnect() whose course nothing has
                   \* disturbed since, and whether no adapter call was pending at its start

vars == <<store, localStorage, adapters, listeners, pending, microtasks, initialized, out, focus>>

----------------------------------------------------------------------------
\* Local storage

JSONstringify(value) == <<"\"", value, "\"">>

JSONparses(text) == Len(text) = 3 /\ text[1] = "\"" /\ text[3] = "\""

JSONparse(text) == text[2]

\* getLocalStorage(key): the parsed item, or null when absent or unparsable.
getLocalStorage(w) ==
    IF w.localStorage # <<>> /\ JSONparses(w.localStorage)
    THEN JSONparse(w.localStorage)
    ELSE Null

\* setLocalStorage(key, value): null removes the item.
setLocalStorage(w, value) ==
    [w EXCEPT !.localStorage = IF value = Null THEN <<>> ELSE JSONstringify(value)]

----------------------------------------------------------------------------
\* The world a store function runs in and changes: the five state variables
\* plus what the turn has done so far (errors reported to onError, adapter
\* methods called, the error thrown to the caller).

NoListeners == [connect |-> 0, disconnect |-> 0, error |-> 0, readyStateChange |-> 0]

PublicKeyOf(w, a) == IF w.adapters[a].connected THEN AdapterKeys[IndexOf(a)] ELSE Null

\* The adapters of store.wallets.
WalletAdapters(w) == {w.store.wallets[i].adapter : i \in 1..Len(w.store.wallets)}

\* newError(error): report to onError, hand the error back to be thrown.
newError(w, error) == [w EXCEPT !.errors = Append(@, error), !.thrown = error]

\* The adapter's method is called; the promise it returns is awaited by `fn`.
CallAdapter(w, a, method, fn, waiter) ==
    [w EXCEPT !.calls = Append(@, <<a, method>>),
              !.pending = Append(@, [fn |-> fn, method |-> method, adapter |-> a,
                                     waiter |-> waiter])]

setConnecting(w, connecting) == [w EXCEPT !.store.connecting = connecting]

setDisconnecting(w, disconnecting) == [w EXCEPT !.store.disconnecting = disconnecting]

setReady(w, ready) == [w EXCEPT !.store.ready = ready]

updateStatus(w, publicKey, connected) ==
    [w EXCEPT !.store.publicKey = publicKey, !.store.connected = connected]

\* updateWallets(wallets): the array is spread into the store object, so its
\* entries land under the keys "0", "1", ... and store.wallets is untouched.
updateWallets(w, wallets) == [w EXCEPT !.store.indexed = wallets]

\* removeAdapterEventListeners that leaves the disconnect listener attached.
removeAdapterEventListeners_keepsDisconnect(w) ==
    IF w.store.adapter = Null THEN w
    ELSE [w EXCEPT !.listeners =
            [a \in DOMAIN @ |->
                [connect |-> IF a = w.store.adapter THEN 0 ELSE @[a].connect,
                 disconnect |-> @[a].disconnect,
                 error |-> IF a = w.store.adapter THEN 0 ELSE @[a].error,
                 readyStateChange |-> IF a \in WalletAdapters(w) THEN 0
                                      ELSE @[a].readyStateChange]]]

removeAdapterEventListeners(w) ==
    IF w.store.adapter = Null THEN w
    ELSE [w EXCEPT !.listeners =
            [a \in DOMAIN @ |->
                [connect |-> IF a = w.store.adapter THEN 0 ELSE @[a].connect,
                 disconnect |-> IF a = w.store.adapter THEN 0 ELSE @[a].disconnect,
                 error |-> IF a = w.store.adapter THEN 0 ELSE @[a].error,
                 readyStateChange |-> IF a \in WalletAdapters(w) THEN 0
                                      ELSE @[a].readyStateChange]]]

addAdapterEventListeners(w, adapter) ==
    [w EXCEPT !.listeners =
        [a \in DOMAIN @ |->
            [connect |-> @[a].connect + (IF a = adapter THEN 1 ELSE 0),
             disconnect |-> @[a].disconnect + (IF a = adapter THEN 1 ELSE 0),
             error |-> @[a].error + (IF a = adapter THEN 1 ELSE 0),
             readyStateChange |-> @[a].readyStateChange
                                  + (IF a \in WalletAdapters(w) THEN 1 ELSE 0)]]]

\* The wrapper updateAdapter stores for a signing method: bound to the adapter
\* when the adapter has the method, undefined otherwise.
SignWrapper(adapter, method) ==
    IF adapter # Null /\ method \in AdapterMethods(adapter) THEN adapter ELSE Undefined

\* updateAdapter that leaves the signing wrappers in place when the selection
\* is cleared.
updateAdapter_keepsSigners(w, adapter) ==
    LET w1 == removeAdapterEventListeners(w)
        w2 == IF adapter # Null THEN addAdapterEventListeners(w1, adapter) ELSE w1
    IN  IF adapter = Null THEN [w2 EXCEPT !.store.adapter = adapter]
        ELSE [w2 EXCEPT
                !.store.adapter = adapter,
                !.store.signTransaction = SignWrapper(adapter, "signTransaction"),
                !.store.signAllTransactions = SignWrapper(adapter, "signAllTransactions"),
                !.store.signMessage = SignWrapper(adapter, "signMessage")]

updateAdapter(w, adapter) ==
    LET w1 == removeAdapterEventListeners(w)
        w2 == IF adapter # Null THEN addAdapterEventListeners(w1, adapter) ELSE w1
    IN  [w2 EXCEPT !.store.adapter = adapter,
                   !.store.signTransaction = SignWrapper(adapter, "signTransaction"),
                   !.store.signAllTransactions = SignWrapper(adapter, "signAllTransactions"),
                   !.store.signMessage = SignWrapper(adapter, "signMessage")]

\* shouldAutoConnect that does not look at the autoConnect setting.
shouldAutoConnect_ignoresFlag(w) ==
    ~( w.store.adapter = Null
       \/ ~(w.store.ready = "Installed" \/ w.store.ready = "Loadable")
       \/ w.store.connected
       \/ w.store.connecting )

shouldAutoConnect(w) ==
    ~( ~w.store.autoConnect
       \/ w.store.adapter = Null
       \/ ~(w.store.ready = "Installed" \/ w.store.ready = "Loadable")
       \/ w.store.connected
       \/ w.store.connecting )

\* autoConnect(), up to its await.
autoConnect(w) ==
    LET w1 == setConnecting(w, TRUE)
    IN  IF w1.store.adapter # Null
        THEN CallAdapter(w1, w1.store.adapter, "connect", "autoConnect", Null)
        ELSE [w1 EXCEPT !.microtasks =
                Append(@, [fn |-> "autoConnect", outcome |-> "resolve", waiter |-> Null])]

updateWalletState(w, adapter) ==
    LET w1 == updateAdapter(w, adapter)
        w2 == [w1 EXCEPT
                 !.store.name = IF adapter # Null THEN NameOf(adapter) ELSE Null,
                 !.store.wallet = adapter,
                 !.store.ready = IF adapter # Null THEN w1.adapters[adapter].readyState
                                 ELSE "Unsupported",
                 !.store.publicKey = IF adapter # Null THEN PublicKeyOf(w1, adapter) ELSE Null,
                 !.store.connected = IF adapter # Null THEN w1.adapters[adapter].connected
                                     ELSE FALSE]
    IN  IF adapter = Null THEN w2
        ELSE IF shouldAutoConnect(w2) THEN autoConnect(w2)
        ELSE w2

updateWalletName(w, name) ==
    LET adapter == IF name \in DOMAIN w.store.walletsByName
                   THEN w.store.walletsByName[name] ELSE Null
    IN  updateWalletState(setLocalStorage(w, name), adapter)

resetWallet(w) == updateWalletName(w, Null)

updateWallet(w, walletName) == updateWalletName(w, walletName)

updateConfig(w, wallets, walletsByName, auto) ==
    [w EXCEPT !.store.wallets = wallets,
              !.store.walletsByName = walletsByName,
              !.store.autoConnect = auto]

----------------------------------------------------------------------------
\* The store's methods, each up to its first await

\* connect() whose first guard forgets `disconnecting`.
connect_ignoresDisconnecting(w) ==
    IF w.store.connected \/ w.store.connecting THEN w
    ELSE IF w.store.adapter = Null THEN newError(w, "WalletNotSelectedError")
    ELSE IF ~(w.store.ready = "Installed" \/ w.store.ready = "Loadable")
         THEN newError(resetWallet(w), "WalletNotReadyError")
    ELSE CallAdapter(setConnecting(w, TRUE), w.store.adapter, "connect", "connect", Null)

\* connect() that keeps the selection when the wallet is not ready.
connect_noReset(w) ==
    IF w.store.connected \/ w.store.connecting \/ w.store.disconnecting THEN w
    ELSE IF w.store.adapter = Null THEN newError(w, "WalletNotSelectedError")
    ELSE IF ~(w.store.ready = "Installed" \/ w.store.ready = "Loadable")
         THEN newError(w, "WalletNotReadyError")
    ELSE CallAdapter(setConnecting(w, TRUE), w.store.adapter, "connect", "connect", Null)

\* connect()
connect(w) ==
    IF w.store.connected \/ w.store.connecting \/ w.store.disconnecting THEN w
    ELSE IF w.store.adapter = Null THEN newError(w, "WalletNotSelectedError")
    ELSE IF ~(w.store.ready = "Installed" \/ w.store.ready = "Loadable")
         THEN newError(resetWallet(w), "WalletNotReadyError")
    ELSE CallAdapter(setConnecting(w, TRUE), w.store.adapter, "connect", "connect", Null)

\* disconnect(); `waiter` is the wallet name of the select() awaiting the
\* promise it returns, or null. A call that returns without awaiting
\* returns a resolved promise, so its waiter resumes in a microtask.
disconnect(w, waiter) ==
    LET resumeWaiter(x) ==
            IF waiter = Null THEN x
            ELSE [x EXCEPT !.microtasks =
                    Append(@, [fn |-> "select", outcome |-> "resolve", waiter |-> waiter])]
    IN  IF w.store.disconnecting THEN resumeWaiter(w)
        ELSE IF w.store.adapter = Null THEN resumeWaiter(resetWallet(w))
        ELSE CallAdapter(setDisconnecting(w, TRUE), w.store.adapter, "disconnect",
                         "disconnect", waiter)

\* select() without the check for the name that is already selected.
select_noGuard(w, walletName) ==
    IF w.store.adapter # Null THEN disconnect(w, walletName)
    ELSE updateWallet(w, walletName)

\* select(walletName)
select(w, walletName) ==
    IF w.store.name = walletName THEN w
    ELSE IF w.store.adapter # Null THEN disconnect(w, walletName)
    ELSE updateWallet(w, walletName)

\* sendTransaction(transaction, connection, options)
sendTransaction(w) ==
    IF ~w.store.connected THEN newError(w, "WalletNotConnectedError")
    ELSE IF w.store.adapter = Null THEN newError(w, "WalletNotSelectedError")
    ELSE [w EXCEPT !.calls = Append(@, <<w.store.adapter, "sendTransaction">>)]

\* A signing wrapper without the connected check.
signWrapper_noGuard(w, method) ==
    [w EXCEPT !.calls = Append(@, <<w.store[method], method>>)]

\* The wrapper stored as store[method] by updateAdapter, called.
signWrapper(w, method) ==
    IF ~w.store.connected THEN newError(w, "WalletNotConnectedError")
    ELSE [w EXCEPT !.calls = Append(@, <<w.store[method], method>>)]

\* initialize() that does not restore the persisted selection.
initialize_noRestore(w, auto) ==
    LET walletsByName == [n \in {NameOf(a) : a \in Adapters} |->
                            CHOOSE a \in Adapters : NameOf(a) = n]
        mapWallets == [i \in 1..NumAdapters |->
                         [adapter |-> AdapterIds[i],
                          readyState |-> w.adapters[AdapterIds[i]].readyState]]
    IN  updateConfig(w, mapWallets, walletsByName, auto)

\* initialize({ wallets, autoConnect, localStorageKey, onError })
initialize(w, auto) ==
    LET walletsByName == [n \in {NameOf(a) : a \in Adapters} |->
                            CHOOSE a \in Adapters : NameOf(a) = n]
        mapWallets == [i \in 1..NumAdapters |->
                         [adapter |-> AdapterIds[i],
                          readyState |-> w.adapters[AdapterIds[i]].readyState]]
        w1 == updateConfig(w, mapWallets, walletsByName, auto)
        walletName == getLocalStorage(w1)
    IN  IF walletName # Null THEN updateWallet(w1, walletName) ELSE w1

\* handleConnect(wallet) of the button: select() is not awaited, so connect()
\* runs right after select()'s synchronous part.
handleConnect(w, wallet) == connect(select(w, NameOf(wallet)))

----------------------------------------------------------------------------
\* The listeners the store attaches to adapters

\* onConnect that takes `connected` from the adapter but not its public key.
onConnect_noPublicKey(w) ==
    IF w.store.adapter = Null THEN w
    ELSE updateStatus(w, w.store.publicKey, w.adapters[w.store.adapter].connected)

onConnect(w) ==
    IF w.store.adapter = Null THEN w
    ELSE updateStatus(w, PublicKeyOf(w, w.store.adapter),
                      w.adapters[w.store.adapter].connected)

onDisconnect(w) == resetWallet(w)

\* store.onError, attached to the adapter's "error" event
onError(w, error) == [w EXCEPT !.errors = Append(@, error)]

\* value.name: an adapter has a name, a ready-state string has none.
NameProperty(value) == IF value \in Adapters THEN NameOf(value) ELSE Undefined

onReadyStateChange(w, thisAdapter, readyState) ==
    IF w.store.adapter = Null THEN w
    ELSE LET wallets == w.store.wallets
             w1 == setReady(w, w.adapters[w.store.adapter].readyState)
             found == {i \in 1..Len(wallets) :
                          NameOf(wallets[i].adapter) = NameProperty(thisAdapter)}
         IN  IF found = {} THEN w1
             ELSE LET walletIndex == CHOOSE i \in found : \A j \in found : i <= j
                  IN  updateWallets(w1,
                          [wallets EXCEPT ![walletIndex].readyState = readyState])

\* One listener of `event` runs with the emitted argument. The readyStateChange
\* listener was attached with the adapter as its context (on(event, fn, adapter)),
\* so the adapter is `this` and the emitted ready state arrives as the first
\* parameter.
Listener(w, event, arg) ==
    CASE event = "connect" -> onConnect(w)
      [] event = "disconnect" -> onDisconnect(w)
      [] event = "error" -> onError(w, arg)
      [] event = "readyStateChange" -> onReadyStateChange(w, arg, Undefined)

RECURSIVE RunListeners(_, _, _, _)
RunListeners(w, event, arg, n) ==
    IF n = 0 THEN w ELSE RunListeners(Listener(w, event, arg), event, arg, n - 1)

\* adapter.emit(event, arg): every listener attached when the emit starts runs.
Emit(w, a, event, arg) == RunListeners(w, event, arg, w.listeners[a][event])

----------------------------------------------------------------------------
\* Resumption of the async functions after their await

\* The error an adapter rejects a call with.
AdapterError(method) ==
    IF method = "connect" THEN "WalletConnectionError" ELSE "WalletDisconnectionError"

\* connect() that swallows the adapter's error the way autoConnect() does.
connectResume_swallows(w, outcome) ==
    IF outcome = "resolve" THEN setConnecting(w, FALSE)
    ELSE setConnecting(resetWallet(w), FALSE)

\* connect() after `await adapter.connect()`: catch, then finally.
connectResume(w, outcome) ==
    IF outcome = "resolve" THEN setConnecting(w, FALSE)
    ELSE setConnecting([resetWallet(w) EXCEPT !.thrown = AdapterError("connect")], FALSE)

\* autoConnect() after `await adapter?.connect()`: the error is swallowed.
autoConnectResume(w, outcome) ==
    IF outcome = "resolve" THEN setConnecting(w, FALSE)
    ELSE setConnecting(resetWallet(w), FALSE)

\* disconnect() with the reset after the await instead of in a finally block.
disconnectResume_noFinally(w, outcome, waiter) ==
    IF outcome = "reject" THEN [w EXCEPT !.thrown = AdapterError("disconnect")]
    ELSE LET w1 == setDisconnecting(resetWallet(w), FALSE)
         IN  IF waiter = Null THEN w1
             ELSE [w1 EXCEPT !.microtasks =
                     Append(@, [fn |-> "select", outcome |-> "resolve", waiter |-> waiter])]

\* disconnect() after `await adapter.disconnect()`: the finally block, then the
\* promise settles and the select() awaiting it, if any, resumes or rejects.
disconnectResume(w, outcome, waiter) ==
    LET w1 == setDisconnecting(resetWallet(w), FALSE)
    IN  IF outcome = "reject" THEN [w1 EXCEPT !.thrown = AdapterError("disconnect")]
        ELSE IF waiter = Null THEN w1
        ELSE [w1 EXCEPT !.microtasks =
                Append(@, [fn |-> "select", outcome |-> "resolve", waiter |-> waiter])]

\* select() after `await disconnect()`
selectResume(w, walletName) == updateWallet(w, walletName)

Resume(w, m) ==
    CASE m.fn = "connect" -> connectResume(w, m.outcome)
      [] m.fn = "autoConnect" -> autoConnectResume(w, m.outcome)
      [] m.fn = "disconnect" -> disconnectResume(w, m.outcome, m.waiter)
      [] m.fn = "select" -> selectResume(w, m.waiter)

----------------------------------------------------------------------------
\* The state machine

NoFocus == [kind |-> "none", adapter |-> Null, quiet |-> FALSE]

Ready(a) == adapters[a].readyState = "Installed" \/ adapters[a].readyState = "Loadable"

\* The world at the start of a turn.
World ==
    [store |-> store, localStorage |-> localStorage, adapters |-> adapters,
     listeners |-> listeners, pending |-> pending, microtasks |-> microtasks,
     errors |-> <<>>, calls |-> <<>>, thrown |-> Null]

\* The turn ends: the world becomes the state, and `out` records the turn: the
\* operation, its argument, the adapter it concerns and how the awaited call
\* settled, with the error thrown, the errors given to onError and the adapter
\* methods called.
Commit(w, op, arg, adapter, outcome) ==
    /\ store' = w.store
    /\ localStorage' = w.localStorage
    /\ adapters' = w.adapters
    /\ listeners' = w.listeners
    /\ pending' = w.pending
    /\ microtasks' = w.microtasks
    /\ out' = [op |-> op, arg |-> arg, adapter |-> adapter, outcome |-> outcome,
               thrown |-> w.thrown, errors |-> w.errors, calls |-> w.calls]

\* createWalletStore(): the store's first value; the adapters are freshly
\* constructed (not connected); local storage holds whatever an earlier
\* session left under the key.
Init ==
    /\ store = [autoConnect |-> FALSE, wallets |-> <<>>, adapter |-> Null,
                connected |-> FALSE, connecting |-> FALSE, disconnecting |-> FALSE,
                publicKey |-> Null, ready |-> "Unsupported", wallet |-> Null,
                name |-> Null, walletsByName |-> [n \in {} |-> Null],
                signTransaction |-> Undefined, signAllTransactions |-> Undefined,
                signMessage |-> Undefined, indexed |-> <<>>]
    /\ localStorage \in {<<>>, <<"{">>, JSONstringify(ForeignName)}
                        \cup {JSONstringify(NameOf(a)) : a \in Adapters}
    /\ adapters \in [Adapters -> [connected : {FALSE}, readyState : SuppliedReadyStates]]
    /\ listeners = [a \in Adapters |-> NoListeners]
    /\ pending = <<>>
    /\ microtasks = <<>>
    /\ initialized = FALSE
    /\ out = [op |-> "create", arg |-> Null, adapter |-> Null, outcome |-> Null,
              thrown |-> Null, errors |-> <<>>, calls |-> <<>>]
    /\ focus = NoFocus

Initialize(auto) ==
    /\ ~initialized
    /\ microtasks = <<>>
    /\ Commit(initialize(World, auto), "initialize", Null, Null, Null)
    /\ initialized' = TRUE
    /\ focus' = NoFocus

Connect ==
    /\ microtasks = <<>>
    /\ LET w == connect(World)
       IN  /\ Commit(w, "connect", Null, Null, Null)
           /\ focus' = IF w.calls # <<>>
                       THEN [kind |-> "connect", adapter |-> store.adapter, quiet |-> pending = <<>>]
                       ELSE NoFocus
    /\ UNCHANGED initialized

Disconnect ==
    /\ microtasks = <<>>
    /\ Commit(disconnect(World, Null), "disconnect", Null, Null, Null)
    /\ focus' = NoFocus
    /\ UNCHANGED initialized

Select(walletName) ==
    /\ microtasks = <<>>
    /\ Commit(select(World, walletName), "select", walletName, Null, Null)
    /\ focus' = NoFocus
    /\ UNCHANGED initialized

\* A click on a wallet of the button's list: the list is rendered while the
\* store is not connected, from the Installed entries of store.wallets, with a
\* button for each adapter that is not connected.
HandleConnect(i) ==
    /\ microtasks = <<>>
    /\ ~store.connected
    /\ i \in 1..Len(store.wallets)
    /\ store.wallets[i].readyState = "Installed"
    /\ ~adapters[store.wallets[i].adapter].connected
    /\ Commit(handleConnect(World, store.wallets[i].adapter), "handleConnect",
              Null, store.wallets[i].adapter, Null)
    /\ focus' = [kind |-> "handleConnect", adapter |-> store.wallets[i].adapter,
                 quiet |-> pending = <<>>]
    /\ UNCHANGED initialized

SendTransaction ==
    /\ microtasks = <<>>
    /\ Commit(sendTransaction(World), "sendTransaction", Null, Null, Null)
    /\ UNCHANGED <<initialized, focus>>

\* store.signTransaction / signAllTransactions / signMessage called; each can
\* be called only while it is defined.
Sign(method) ==
    /\ microtasks = <<>>
    /\ store[method] # Undefined
    /\ Commit(signWrapper(World, method), method, Null, Null, Null)
    /\ UNCHANGED <<initialized, focus>>

\* The adapter settles a pending call: it changes its own state, emits its
\* event to the listeners attached, and the promise settles, which queues the
\* resumption of the function awaiting it.
AdapterSettle(outcome) ==
    /\ microtasks = <<>>
    /\ \E i \in 1..Len(pending) :
       LET t == pending[i]
           a == t.adapter
           rest == SubSeq(pending, 1, i - 1) \o SubSeq(pending, i + 1, Len(pending))
           w0 == [World EXCEPT !.pending = rest]
           w1 == IF outcome = "reject" THEN Emit(w0, a, "error", AdapterError(t.method))
                 ELSE IF t.method = "connect"
                 THEN Emit([w0 EXCEPT !.adapters[a].connected = TRUE], a, "connect", Null)
                 ELSE Emit([w0 EXCEPT !.adapters[a].connected = FALSE], a, "disconnect", Null)
           w2 == [w1 EXCEPT !.microtasks =
                    Append(@, [fn |-> t.fn, outcome |-> outcome, waiter |-> t.waiter])]
       IN  /\ (outcome = "resolve" /\ t.method = "connect") => Ready(a)
           /\ Commit(w2, "settle", t.method, a, outcome)
    /\ focus' = IF outcome = "reject" THEN NoFocus ELSE focus
    /\ UNCHANGED initialized

\* The wallet disconnects on its own (the user disconnects in the extension).
AdapterDisconnects(a) ==
    /\ microtasks = <<>>
    /\ adapters[a].connected
    /\ Commit(Emit([World EXCEPT !.adapters[a].connected = FALSE], a, "disconnect", Null),
              "adapterDisconnect", Null, a, Null)
    /\ focus' = NoFocus
    /\ UNCHANGED initialized

\* The wallet is detected in the page: the adapter's readyState goes from
\* NotDetected to Installed and it emits readyStateChange with the new state.
AdapterDetected(a) ==
    /\ microtasks = <<>>
    /\ adapters[a].readyState = "NotDetected"
    /\ Commit(Emit([World EXCEPT !.adapters[a].readyState = "Installed"], a,
                   "readyStateChange", "Installed"),
              "readyStateChange", "Installed", a, Null)
    /\ UNCHANGED <<initialized, focus>>

\* The next microtask runs: an async function resumes after its await.
RunMicrotask ==
    /\ microtasks # <<>>
    /\ LET m == Head(microtasks)
       IN  Commit(Resume([World EXCEPT !.microtasks = Tail(@)], m),
                  "resume", m.fn, Null, m.outcome)
    /\ UNCHANGED <<initialized, focus>>

Next ==
    \/ \E auto \in BOOLEAN : Initialize(auto)
    \/ Connect
    \/ Disconnect
    \/ \E a \in Adapters : Select(NameOf(a))
    \/ \E i \in 1..NumAdapters : HandleConnect(i)
    \/ SendTransaction
    \/ \E method \in SignMethods : Sign(method)
    \/ \E outcome \in {"resolve", "reject"} : AdapterSettle(outcome)
    \/ \E a \in Adapters : AdapterDisconnects(a)
    \/ \E a \in Adapters : AdapterDetected(a)
    \/ RunMicrotask

Spec == Init /\ [][Next]_vars

----------------------------------------------------------------------------
\* Sanity of the model

TypeOK ==
    /\ store.adapter \in Adapters \cup {Null}
    /\ store.wallet \in Adapters \cup {Null}
    /\ store.ready \in WalletReadyState
    /\ Len(pending) <= 2
    /\ Len(microtasks) <= 2
    /\ \A a \in Adapters : \A e \in DOMAIN NoListeners : listeners[a][e] \in 0..1

----------------------------------------------------------------------------
\* The claims

StoreState == <<store, localStorage, adapters, listeners, pending, microtasks>>

\* C1: each of signTransaction, signAllTransactions and signMessage is defined
\* exactly when an adapter is selected and that adapter has the method; with no
\* adapter selected all three are undefined.
C1_SigningIffSupported ==
    \A m \in SignMethods :
        /\ store[m] # Undefined
             <=> (store.adapter # Null /\ m \in AdapterMethods(store.adapter))
        /\ store[m] \in {Undefined, store.adapter}

\* C1 witness: an adapter with the transaction methods but no signMessage is selected.
C1_Witness ==
    /\ store.adapter # Null
    /\ store.signTransaction # Undefined
    /\ store.signMessage = Undefined

\* C2 (as claimed): no adapter other than the selected one is connected or has a
\* connect() call started by the store in flight.
C2_OnlySelectedActive ==
    \A a \in Adapters :
        a # store.adapter =>
            /\ ~adapters[a].connected
            /\ \A i \in 1..Len(pending) :
                  ~(pending[i].adapter = a /\ pending[i].method = "connect")

\* The store after a reset: nothing selected, nothing persisted.
ResetState(s, ls) ==
    /\ s.adapter = Null
    /\ s.wallet = Null
    /\ s.name = Null
    /\ s.connected = FALSE
    /\ s.publicKey = Null
    /\ s.ready = "Unsupported"
    /\ s.signTransaction = Undefined
    /\ s.signAllTransactions = Undefined
    /\ s.signMessage = Undefined
    /\ ls = <<>>

\* C3: right after the selected adapter emits disconnect (on its own, or as its
\* disconnect() resolves), right after a disconnect() that awaited
\* adapter.disconnect() resumes (resolved or rejected), and right after a
\* disconnect() called with no adapter selected, the store is reset and the
\* persisted name removed.
C3_ResetOnDisconnect ==
    [][ ( \/ out'.op = "adapterDisconnect" /\ out'.adapter = store.adapter
          \/ /\ out'.op = "settle" /\ out'.arg = "disconnect"
             /\ out'.outcome = "resolve" /\ out'.adapter = store.adapter
          \/ out'.op = "resume" /\ out'.arg = "disconnect"
          \/ out'.op = "disconnect" /\ store.adapter = Null )
        => ResetState(store', localStorage') ]_vars

\* C3 witness: a disconnect() whose adapter.disconnect() rejected has resumed.
C3_Witness ==
    /\ out.op = "resume" /\ out.arg = "disconnect" /\ out.outcome = "reject"
    /\ ResetState(store, localStorage)

\* C4: a connect() that passed its guards, whose adapter.connect() resolved and
\* which no other store operation or failure disturbed, ends with the store
\* connected, holding the adapter's public key, the same adapter selected and
\* connecting false.
C4_ConnectCompletes ==
    ( /\ out.op = "resume" /\ out.arg = "connect" /\ out.outcome = "resolve"
      /\ focus.kind = "connect" )
    => /\ store.connected
       /\ store.publicKey = AdapterKeys[IndexOf(focus.adapter)]
       /\ store.adapter = focus.adapter
       /\ ~store.connecting

\* C4 witness: such a connect() has resumed.
C4_Witness ==
    /\ out.op = "resume" /\ out.arg = "connect" /\ out.outcome = "resolve"
    /\ focus.kind = "connect"
    /\ store.connected

\* C5: after initialize() the wallets list has one entry per supplied adapter
\* with its readyState, walletsByName maps each name to its adapter, and the
\* adapter whose name local storage held is selected, or none if it held no
\* supplied adapter's name.
C5_Initialize ==
    [][ out'.op = "initialize" =>
        /\ Len(store'.wallets) = NumAdapters
        /\ \A i \in 1..NumAdapters :
              store'.wallets[i] = [adapter |-> AdapterIds[i],
                                   readyState |-> adapters[AdapterIds[i]].readyState]
        /\ DOMAIN store'.walletsByName = {NameOf(a) : a \in Adapters}
        /\ \A a \in Adapters : store'.walletsByName[NameOf(a)] = a
        /\ \A a \in Adapters :
              localStorage = JSONstringify(NameOf(a)) =>
                  /\ store'.name = NameOf(a)
                  /\ store'.adapter = a
                  /\ store'.wallet = a
        /\ (\A a \in Adapters : localStorage # JSONstringify(NameOf(a))) =>
                  /\ store'.name = Null
                  /\ store'.adapter = Null
                  /\ store'.wallet = Null ]_vars

\* C5 witness: initialize() has restored the second adapter from local storage.
C5_Witness ==
    /\ out.op = "initialize"
    /\ store.adapter = AdapterIds[2]
    /\ store.name = NameOf(AdapterIds[2])

\* C6 (as claimed, for clicks made while no adapter call is pending): once a
\* click on a wallet of the list has run its course, with every adapter call
\* resolved and no other store operation, that wallet is selected and the store
\* connected.
C6_ClickConnects ==
    (focus.kind = "handleConnect" /\ focus.quiet /\ pending = <<>> /\ microtasks = <<>>)
    => (store.adapter = focus.adapter /\ store.connected)

\* C7: sendTransaction and the signing wrappers change nothing in the store;
\* called while not connected they throw WalletNotConnectedError, report it to
\* onError once and call no adapter method; called while connected they call
\* the selected adapter's method.
C7_SignGuards ==
    [][ out'.op \in SignMethods \cup {"sendTransaction"} =>
        /\ UNCHANGED StoreState
        /\ ~store.connected =>
              /\ out'.thrown = "WalletNotConnectedError"
              /\ out'.errors = <<"WalletNotConnectedError">>
              /\ out'.calls = <<>>
        /\ store.connected =>
              /\ out'.thrown = Null
              /\ out'.errors = <<>>
              /\ out'.calls = << <<store.adapter, out'.op>> >> ]_vars

\* C7 witness: signMessage was called while not connected and threw.
C7_Witness ==
    /\ out.op = "signMessage"
    /\ ~store.connected
    /\ out.thrown = "WalletNotConnectedError"

\* C8 (as claimed): when an adapter of the list emits readyStateChange while a
\* wallet is selected, its entry in store.wallets carries the new readyState and
\* the other entries are unchanged.
C8_WalletsFollowReadyState ==
    [][ (out'.op = "readyStateChange" /\ store.adapter # Null) =>
        /\ Len(store'.wallets) = Len(store.wallets)
        /\ \A i \in 1..Len(store.wallets) :
              store'.wallets[i] =
                 IF store.wallets[i].adapter = out'.adapter
                 THEN [adapter |-> out'.adapter, readyState |-> out'.arg]
                 ELSE store.wallets[i] ]_vars

\* C9: connect() called while connected, connecting or disconnecting changes
\* nothing, calls nothing and reports nothing.
C9_ConnectNoOp ==
    [][ ( /\ out'.op = "connect"
          /\ (store.connected \/ store.connecting \/ store.disconnecting) )
        => /\ UNCHANGED StoreState
           /\ out'.calls = <<>>
           /\ out'.errors = <<>>
           /\ out'.thrown = Null ]_vars

\* C9 witness: connect() was called while a disconnect was in progress.
C9_Witness ==
    /\ out.op = "connect"
    /\ store.disconnecting
    /\ store.adapter # Null
    /\ ~store.connecting

\* C10: connect() with an adapter selected whose ready state is neither
\* Installed nor Loadable (and not connected, connecting or disconnecting) calls
\* no adapter method, clears the selection and the persisted name, reports
\* WalletNotReadyError to onError and throws it, and leaves connecting false.
C10_ConnectNotReady ==
    [][ ( /\ out'.op = "connect"
          /\ store.adapter # Null
          /\ ~(store.ready = "Installed" \/ store.ready = "Loadable")
          /\ ~store.connected /\ ~store.connecting /\ ~store.disconnecting )
        => /\ out'.calls = <<>>
           /\ pending' = pending
           /\ store'.adapter = Null
           /\ store'.wallet = Null
           /\ store'.name = Null
           /\ localStorage' = <<>>
           /\ out'.errors = <<"WalletNotReadyError">>
           /\ out'.thrown = "WalletNotReadyError"
           /\ ~store'.connecting ]_vars

\* C10 witness: connect() threw WalletNotReadyError.
C10_Witness ==
    /\ out.op = "connect"
    /\ out.thrown = "WalletNotReadyError"
    /\ store.adapter = Null


\* C11: when the adapter.connect() started by connect() rejects, connect()
\* rejects with the adapter's error, the selection is cleared (no adapter, no
\* name, not connected, persisted name removed) and connecting is false once
\* the call has settled.
C11_ConnectRejects ==
    (out.op = "resume" /\ out.arg = "connect" /\ out.outcome = "reject")
    => /\ out.thrown = AdapterError("connect")
       /\ store.adapter = Null
       /\ store.name = Null
       /\ ~store.connected
       /\ localStorage = <<>>
       /\ ~store.connecting

\* C11 witness: a connect() whose adapter.connect() rejected has resumed.
C11_Witness ==
    /\ out.op = "resume" /\ out.arg = "connect" /\ out.outcome = "reject"
    /\ out.thrown = "WalletConnectionError"


\* C12: with autoConnect enabled, a turn of initialize(), select() or the
\* button's click that makes a wallet selected whose ready state is Installed or
\* Loadable, while the store is neither connected nor connecting, starts
\* adapter.connect() on it; when that connect fails the selection is cleared,
\* nothing is thrown and connecting ends false. With autoConnect disabled,
\* initialize() and select() never call adapter.connect().
C12_AutoConnect ==
    [][ /\ ( /\ \/ out'.op \in {"initialize", "select", "handleConnect"}
                \/ out'.op = "resume" /\ out'.arg = "select"
             /\ store'.adapter # Null
             /\ store'.adapter # store.adapter
             /\ store'.autoConnect
             /\ (store'.ready = "Installed" \/ store'.ready = "Loadable")
             /\ ~store'.connected
             /\ ~store.connecting )
           => /\ out'.calls = << <<store'.adapter, "connect">> >>
              /\ \E i \in 1..Len(pending') :
                    pending'[i] = [fn |-> "autoConnect", method |-> "connect",
                                   adapter |-> store'.adapter, waiter |-> Null]
              /\ store'.connecting
        /\ (out'.op = "resume" /\ out'.arg = "autoConnect" /\ out'.outcome = "reject")
           => /\ store'.adapter = Null
              /\ store'.wallet = Null
              /\ store'.name = Null
              /\ out'.thrown = Null
              /\ ~store'.connecting
        /\ ( /\ \/ out'.op \in {"initialize", "select"}
                \/ out'.op = "resume" /\ out'.arg = "select"
             /\ ~store'.autoConnect )
           => \A i \in 1..Len(out'.calls) : out'.calls[i][2] # "connect" ]_vars

\* C12 witness: select() made a wallet selected and autoConnect started its connect().
C12_Witness ==
    /\ out.op = "select"
    /\ store.autoConnect
    /\ store.connecting
    /\ out.calls = << <<store.adapter, "connect">> >>


\* C13: select(B) called while a different adapter A is selected disconnects A
\* first: the turn of select() that makes B the selected adapter runs only when
\* no call to A's adapter.disconnect() is still unsettled.
C13_DisconnectsFirst ==
    [][ ( /\ out'.op = "resume" /\ out'.arg = "select"
          /\ store'.adapter # Null )
        => \A i \in 1..Len(pending) : pending[i].method # "disconnect" ]_vars


\* C14: every call select(B) with B a supplied wallet's name different from the
\* selected name makes B the selected wallet, whether the previous adapter's
\* disconnect() resolves or rejects. As a chain over the turns of the call: the
\* first turn selects B or leaves the call waiting (on a queued resumption or
\* on adapter.disconnect()); a settled adapter.disconnect() resumes
\* disconnect(); the resumed disconnect(), resolved or rejected, lets select()
\* go on; and the resumed select() makes name = B, adapter = wallet =
\* walletsByName[B] and persists B.
C14_SelectCompletes ==
    [][ /\ \A B \in DOMAIN store.walletsByName :
              (out'.op = "select" /\ out'.arg = B /\ store.name # B)
              => \/ store'.name = B
                 \/ \E i \in 1..Len(microtasks') :
                       microtasks'[i].fn = "select" /\ microtasks'[i].waiter = B
                 \/ \E i \in 1..Len(pending') :
                       pending'[i].method = "disconnect" /\ pending'[i].waiter = B
        /\ \A i \in 1..Len(pending) :
              ( /\ pending[i].waiter # Null
                /\ ~(\E j \in 1..Len(pending') : pending'[j] = pending[i]) )
              => \E k \in 1..Len(microtasks') :
                    /\ microtasks'[k].fn = "disconnect"
                    /\ microtasks'[k].waiter = pending[i].waiter
        /\ ( /\ microtasks # <<>>
             /\ Head(microtasks).fn = "disconnect"
             /\ Head(microtasks).waiter # Null
             /\ out'.op = "resume" )
           => \E i \in 1..Len(microtasks') :
                 /\ microtasks'[i].fn = "select"
                 /\ microtasks'[i].waiter = Head(microtasks).waiter
        /\ ( /\ microtasks # <<>>
             /\ Head(microtasks).fn = "select"
             /\ out'.op = "resume" )
           => /\ store'.name = Head(microtasks).waiter
              /\ store'.adapter = store.walletsByName[Head(microtasks).waiter]
              /\ store'.wallet = store'.adapter
              /\ localStorage' = JSONstringify(Head(microtasks).waiter) ]_vars


\* C15: select(name) with the name that is already selected is a no-op: it
\* calls no adapter method, adds or removes no listener, queues nothing, and
\* leaves the store state and local storage unchanged.
C15_SelectSameName ==
    [][ (out'.op = "select" /\ out'.arg = store.name)
        => /\ UNCHANGED StoreState
           /\ out'.calls = <<>>
           /\ out'.errors = <<>>
           /\ out'.thrown = Null ]_vars

\* C15 witness: select() was called with the name of the connected wallet.
C15_Witness ==
    /\ out.op = "select"
    /\ out.arg = store.name
    /\ out.calls = <<>>
    /\ store.connected
    /\ store.publicKey # Null


\* C16: after every turn of a store operation the store's connect and
\* disconnect listeners are attached exactly once to the selected adapter and
\* to no other adapter, and when no adapter is selected no store listener
\* (connect, disconnect, error, readyStateChange) is attached to any adapter.
C16_ListenerBookkeeping ==
    /\ \A a \in Adapters :
          /\ listeners[a].connect = (IF a = store.adapter THEN 1 ELSE 0)
          /\ listeners[a].disconnect = (IF a = store.adapter THEN 1 ELSE 0)
    /\ store.adapter = Null => \A a \in Adapters : listeners[a] = NoListeners

\* C16 witness: a second wallet was selected after the first one was
\* disconnected by select(), and only the second carries the listeners.
C16_Witness ==
    /\ out.op = "resume"
    /\ out.arg = "select"
    /\ store.adapter # Null
    /\ listeners[store.adapter].connect = 1
    /\ listeners[store.adapter].disconnect = 1
    /\ \E a \in Adapters : a # store.adapter /\ listeners[a].connect = 0

====
